---- MODULE Spec2Model ----
(***************************************************************************)
(* Model of the heavy-mode pipeline of make-it-heavy (src/orchestrator.py): *)
(* TaskOrchestrator.orchestrate = decompose_task -> thread-pool fan-out of  *)
(* run_agent_parallel -> as_completed fan-in -> aggregate_results.          *)
(*                                                                         *)
(* Text is modelled as a sequence of string tokens; string concatenation   *)
(* is sequence concatenation, "\n".join is Join with the token "\n".       *)
(* Dollar costs are integers (price units per token).                      *)
(***************************************************************************)
EXTENDS Integers, Sequences, FiniteSets, TLC

\* ---------------------------------------------------------------- bounds
MaxAgents == 3        \* orchestrator.parallel_agents ranges over 1..MaxAgents
MaxReply == 5         \* item count of a decomposition reply ranges over 0..MaxReply
MaxN == 5             \* num_agents handed to decompose_task on its own
InputPrice == 1       \* input_cost_per_1m of a priced model (price units)
OutputPrice == 2      \* output_cost_per_1m of a priced model (price units)

\* ------------------------------------------------------ program constants
SynthesisId == 0 - 1  \* agent id used for the synthesis agent

AllFailedMsg == <<"All agents failed to provide results. Please try again.">>
DefaultModel == "deepseek-chat"
NoValue == [none |-> TRUE]

\* ------------------------------------------------------------- text helpers
RECURSIVE TextLen(_)
TextLen(t) == IF t = <<>> THEN 0 ELSE Len(Head(t)) + TextLen(Tail(t))

RECURSIVE Join(_, _)
Join(parts, sep) ==
    IF parts = <<>> THEN <<>>
    ELSE IF Len(parts) = 1 THEN Head(parts)
    ELSE Head(parts) \o <<sep>> \o Join(Tail(parts), sep)

\* t contains s as a contiguous run of tokens
Contains(t, s) ==
    \E k \in 0..(Len(t) - Len(s)) : SubSeq(t, k + 1, k + Len(s)) = s

UserInput == <<"user query">>

\* ------------------------------------------------------------ decomposition
\* what question_agent.run(generation_prompt) hands back, or how the step fails
DecomposeReplies ==
    [k : {"json_array", "json_object", "json_string"}, n : 0..MaxReply]
    \cup [k : {"json_scalar", "unparsable", "api_error", "init_error", "format_error"}, n : {0}]

Question(j) == <<"Question " \o ToString(j)>>

FallbackQuestions(user_input) ==
    << <<"Research comprehensive information about: ">> \o user_input,
       <<"Analyze and provide insights about: ">> \o user_input,
       <<"Find alternative perspectives on: ">> \o user_input,
       <<"Verify and cross-check facts about: ">> \o user_input >>

Min(a, b) == IF a < b THEN a ELSE b

\* a slice that keeps the whole list
Prefix_Whole(s, n) == s

\* Python slice seq[:n]
Prefix(s, n) == SubSeq(s, 1, Min(n, Len(s)))

\* the except branch of decompose_task
DecomposeFallback(user_input, num_agents) ==
    [kind |-> "list", items |-> Prefix(FallbackQuestions(user_input), num_agents), exc |-> ""]

\* decompose_task(user_input, num_agents) on reply r:
\* kind "list"/"str"/"dict" is the Python type of the value returned,
\* kind "raise" means the call raised exc.
decompose_task(user_input, num_agents, r) ==
    CASE r.k = "init_error"   -> [kind |-> "raise", items |-> <<>>, exc |-> "Exception"]
      [] r.k = "format_error" -> [kind |-> "raise", items |-> <<>>, exc |-> "KeyError"]
      [] r.k = "api_error"    -> [kind |-> "raise", items |-> <<>>, exc |-> "ProviderError"]
      [] r.k = "unparsable"   -> DecomposeFallback(user_input, num_agents)
      [] r.k = "json_scalar"  -> [kind |-> "raise", items |-> <<>>, exc |-> "TypeError"]
      [] r.k = "json_array"   ->
            IF r.n # num_agents THEN DecomposeFallback(user_input, num_agents)
            ELSE [kind |-> "list", items |-> [j \in 1..r.n |-> Question(j)], exc |-> ""]
      [] r.k = "json_string"  ->
            IF r.n # num_agents THEN DecomposeFallback(user_input, num_agents)
            ELSE [kind |-> "str", items |-> [j \in 1..r.n |-> <<"c">>], exc |-> ""]
      [] r.k = "json_object"  ->
            IF r.n # num_agents THEN DecomposeFallback(user_input, num_agents)
            ELSE [kind |-> "dict", items |-> [j \in 1..r.n |-> Question(j)], exc |-> ""]

\* ------------------------------------------------------------------- state
VARIABLES
    num_agents,      \* config orchestrator.parallel_agents
    multi_model,     \* self.multi_model_config is not None
    priced,          \* the model table carries prices for the models in use
    pc,              \* position of the thread inside orchestrate
    exc,             \* exception propagating out of orchestrate ("" if none)
    subtasks,        \* value returned by decompose_task
    wstate,          \* per future: "none", "queued", "running", "done"
    wresult,         \* per future: the dict returned by run_agent_parallel
    ac_first,        \* as_completed has not yet taken its initial snapshot
    ac_ready,        \* futures as_completed has seen finished and not yet yielded
    ac_pending,      \* futures as_completed still waits for
    agent_results,   \* local list agent_results of orchestrate
    agent_progress,  \* self.agent_progress
    agent_result_text, \* self.agent_results
    agent_models,    \* self.agent_models
    agent_costs,     \* self.agent_costs
    synth_agents,    \* number of UniversalAgent objects built for synthesis
    synth_requests,  \* prompts handed to synthesis_agent.run, in order
    final_result,    \* value returned by orchestrate
    synth_outcome,   \* where the synthesis step failed ("none": no synthesis)
    dq_n,            \* decompose_task on its own: num_agents
    dq_reply,        \* decompose_task on its own: the reply of the model
    dq_out,          \* decompose_task on its own: value returned
    a_cfg,           \* UniversalAgent: the configuration file and the tools found
    a_role,          \* UniversalAgent: who drives it (single, worker, decompose, synthesis)
    a_pc,            \* UniversalAgent: new, init_failed, ready, running, returned, raised
    a_exc,           \* UniversalAgent: exception raised by __init__ or run
    a_tools,         \* UniversalAgent: self.tools
    a_iter,          \* run: iteration
    a_requests,      \* run: the requests handed to chat.completions.create
    a_content,       \* run: full_response_content
    a_completed,     \* run: mark_task_complete was invoked
    a_out,           \* run: value returned
    a_status,        \* run_agent_parallel around run: status of its result
    orch_calls,      \* orchestrate calls made on this orchestrator so far
    invocations,     \* per index: run_agent_parallel calls of the current orchestrate
    f_pc,            \* fan-out: position of each pool thread in run_agent_parallel
    f_lock,          \* fan-out: holder of self.progress_lock
    f_writes,        \* fan-out: the writes pool threads made to orchestrator state
    f_config_model,  \* fan-out: self.config[provider_type]['model']
    f_monitor,       \* fan-out: self.cost_monitor is not None
    monitoring_active, \* CostMonitor.monitoring_active
    cm_budget_limit, \* CostMonitor.budget_limit
    cm_total_cost,   \* CostMonitor.total_cost
    cm_agent_costs,  \* CostMonitor.agent_costs
    cm_cost_entries, \* CostMonitor.cost_entries
    cm_triggered,    \* CostMonitor.alerts: the triggered flag of each alert
    cm_callbacks,    \* the calls of alert_callback, in order
    cm_lock,         \* holder of CostMonitor.lock
    cm_pc,           \* per recording thread: position in record_agent_cost
    cm_cost,         \* per recording thread: the argument cost
    cm_loaded,       \* per recording thread: total_cost as read by "+="
    cm_resets,       \* reset_session calls so far
    cm_records,      \* record_agent_cost calls so far
    t_provider,      \* provider_type of the agent whose conversation is followed
    t_model,         \* provider_config.model
    t_tools,         \* names of the discovered tools (self.tools, tool_mapping)
    t_messages,      \* the messages list of run
    t_requests,      \* api_params of every completion request, in order
    t_pc,            \* "idle", "running", "returned", "raised"
    t_iter,          \* iteration of run
    m_is_running,    \* AgentManager.is_running
    m_pc,            \* per run_async call: position of its background thread
    m_mode,          \* per run_async call: current_mode the thread read
    m_outcome,       \* per run_async call: "", "success" or "failure" of the run
    m_cb_calls,      \* per run_async call: arguments the completion callback got
    l_threads,       \* monitoring-loop threads: position, and what happened since
    l_monitor_thread,\* self.monitor_thread: index of the newest thread, -1 if None
    l_started        \* threads created so far

orchVars == <<num_agents, multi_model, priced, pc, exc, subtasks, wstate, wresult,
              ac_first, ac_ready, ac_pending, agent_results, agent_progress,
              agent_result_text, agent_models, agent_costs, synth_agents,
              synth_requests, final_result, synth_outcome, orch_calls, invocations>>

decVars == <<dq_n, dq_reply, dq_out>>

agVars == <<a_cfg, a_role, a_pc, a_exc, a_tools, a_iter, a_requests, a_content,
            a_completed, a_out, a_status>>

fanVars == <<f_pc, f_lock, f_writes, f_config_model, f_monitor>>

cmVars == <<cm_budget_limit, cm_total_cost, cm_agent_costs, cm_cost_entries,
            cm_triggered, cm_callbacks, cm_lock, cm_pc, cm_cost, cm_loaded, cm_resets,
            cm_records>>

\* the state outside TaskOrchestrator and UniversalAgent
toolVars == <<t_provider, t_model, t_tools, t_messages, t_requests, t_pc, t_iter>>

mgrVars == <<m_is_running, m_pc, m_mode, m_outcome, m_cb_calls>>

loopVars == <<l_threads, l_monitor_thread, l_started>>

extVars == <<cmVars, toolVars, mgrVars, loopVars>>

vars == <<orchVars, decVars, agVars, fanVars, monitoring_active, extVars>>

Agents == 0..(num_agents - 1)

\* dict assignment d[k] = v
Put(d, k, v) == [x \in DOMAIN d \cup {k} |-> IF x = k THEN v ELSE d[x]]
EmptyDict == [x \in {} |-> 0]

\* ------------------------------------------------------------ model choice
AgentModelName(agent_id) == "model-" \o ToString(agent_id)

_get_agent_model(agent_id) ==
    IF multi_model THEN (IF agent_id \in 0..3 THEN AgentModelName(agent_id) ELSE DefaultModel)
    ELSE DefaultModel

_get_synthesis_model == IF multi_model THEN "model-synthesis" ELSE DefaultModel

\* ---------------------------------------------------------- cost estimation
\* the cost _estimate_agent_cost returns
EstimatedCost(input_length, output_length) ==
    IF ~priced THEN 0
    ELSE (input_length \div 4) * InputPrice + (output_length \div 4) * OutputPrice

\* self.agent_costs after _estimate_agent_cost(agent_id, ...)
CostsAfterEstimate(costs, agent_id, input_length, output_length) ==
    IF ~priced THEN costs
    ELSE Put(costs, agent_id,
             (IF agent_id \in DOMAIN costs THEN costs[agent_id] ELSE 0)
             + EstimatedCost(input_length, output_length))

\* ------------------------------------------------------------------ workers
AgentAnswer(agent_id) == <<"Answer " \o ToString(agent_id + 1)>>

WorkerOutcomes == {"ok", "select_fail", "create_fail", "run_fail"}

ErrorText(o) == CASE o = "select_fail" -> "model selection failed"
                  [] o = "create_fail" -> "Agent initialization failed"
                  [] OTHER -> "LLM call failed"

\* run_agent_parallel without its except branch: a failing agent.run escapes
WorkerResult_NoCatch(agent_id, subtask, o) ==
    IF o = "run_fail" THEN NoValue
    ELSE [agent_id |-> agent_id, status |-> IF o = "ok" THEN "success" ELSE "error",
          response |-> IF o = "ok" THEN AgentAnswer(agent_id) ELSE <<ErrorText(o)>>,
          model |-> "unknown", estimated_cost |-> 0]

\* the dict run_agent_parallel(agent_id, subtask) returns when the step named
\* by outcome o raises (o = "ok": nothing raises)
WorkerResult(agent_id, subtask, o) ==
    LET agent_model == IF o = "select_fail" THEN "" ELSE _get_agent_model(agent_id)
        error_msg == <<"Agent " \o ToString(agent_id) \o " error">>
                     \o (IF agent_model # "" THEN <<" (model: " \o agent_model \o ")">> ELSE <<>>)
                     \o <<": ", ErrorText(o)>>
    IN IF o = "ok"
       THEN [agent_id |-> agent_id, status |-> "success",
             response |-> AgentAnswer(agent_id), model |-> agent_model,
             estimated_cost |-> EstimatedCost(TextLen(subtask), TextLen(AgentAnswer(agent_id)))]
       ELSE [agent_id |-> agent_id, status |-> "error",
             response |-> error_msg,
             model |-> IF agent_model # "" THEN agent_model ELSE "unknown",
             estimated_cost |-> 0]

\* the entry orchestrate appends when future.result() raises
TimeoutRecord(agent_id) ==
    [agent_id |-> agent_id, status |-> "timeout",
     response |-> <<"Agent " \o ToString(agent_id + 1) \o " timed out or failed: ">>]

\* subtasks[i] in orchestrate: the value, or the exception the lookup raises
SubtaskLookup(st, i) ==
    IF st.kind = "dict" THEN [ok |-> FALSE, exc |-> "KeyError", value |-> <<>>]
    ELSE IF i + 1 > Len(st.items) THEN [ok |-> FALSE, exc |-> "IndexError", value |-> <<>>]
    ELSE [ok |-> TRUE, exc |-> "", value |-> st.items[i + 1]]

\* no CostMonitor under observation
CostIdle ==
    /\ cm_budget_limit = 0
    /\ cm_total_cost = 0
    /\ cm_agent_costs = EmptyDict
    /\ cm_cost_entries = <<>>
    /\ cm_triggered = EmptyDict
    /\ cm_callbacks = <<>>
    /\ cm_lock = "free"
    /\ cm_pc = <<>>
    /\ cm_cost = <<>>
    /\ cm_loaded = <<>>
    /\ cm_resets = 0
    /\ cm_records = 0

\* nothing outside TaskOrchestrator and UniversalAgent under observation
\* no conversation under observation
ToolIdle ==
    /\ t_provider = ""
    /\ t_model = ""
    /\ t_tools = <<>>
    /\ t_messages = <<>>
    /\ t_requests = <<>>
    /\ t_pc = "idle"
    /\ t_iter = 0

\* AgentManager() with no execution started
ManagerIdle ==
    /\ m_is_running = FALSE
    /\ m_pc = <<>>
    /\ m_mode = <<>>
    /\ m_outcome = <<>>
    /\ m_cb_calls = <<>>

\* no monitoring-loop thread was created
LoopIdle ==
    /\ l_threads = <<>>
    /\ l_monitor_thread = 0 - 1
    /\ l_started = 0

ExtIdle == CostIdle /\ ToolIdle /\ ManagerIdle /\ LoopIdle

\* no pool thread under observation
FanIdle ==
    /\ f_pc = <<>>
    /\ f_lock = "free"
    /\ f_writes = {}
    /\ f_config_model = DefaultModel
    /\ f_monitor = FALSE

\* no UniversalAgent under observation
AgentIdle ==
    /\ a_cfg = NoValue
    /\ a_role = "single"
    /\ a_pc = "idle"
    /\ a_exc = ""
    /\ a_tools = <<>>
    /\ a_iter = 0
    /\ a_requests = <<>>
    /\ a_content = <<>>
    /\ a_completed = FALSE
    /\ a_out = NoValue
    /\ a_status = ""

\* ------------------------------------------------------------------- Init
\* the orchestrator right after __init__
OrchestratorFresh ==
    /\ pc = "start"
    /\ exc = ""
    /\ subtasks = NoValue
    /\ wstate = [i \in Agents |-> "none"]
    /\ wresult = [i \in Agents |-> NoValue]
    /\ ac_first = TRUE
    /\ ac_ready = {}
    /\ ac_pending = {}
    /\ agent_results = <<>>
    /\ agent_progress = EmptyDict
    /\ agent_result_text = EmptyDict
    /\ agent_models = EmptyDict
    /\ agent_costs = EmptyDict
    /\ synth_agents = 0
    /\ synth_requests = <<>>
    /\ final_result = NoValue
    /\ synth_outcome = "none"
    /\ orch_calls = 1
    /\ invocations = [i \in Agents |-> 0]

Init ==
    /\ num_agents \in 1..MaxAgents
    /\ multi_model \in BOOLEAN
    /\ priced \in BOOLEAN
    /\ OrchestratorFresh
    /\ dq_n = 1
    /\ dq_reply = NoValue
    /\ dq_out = NoValue
    /\ AgentIdle
    /\ FanIdle
    /\ ExtIdle
    /\ monitoring_active = FALSE

\* ---------------------------------------------- orchestrate: cost monitoring
\* the orchestrator followed here has orchestrator.budget_limit configured, so
\* self.cost_monitor exists

\* orchestrate stopping the monitor on a normal return only
OrchestrateFinally_OnReturnOnly(active, raised) == IF raised THEN active ELSE FALSE

\* monitoring_active after the finally clause of orchestrate: stop_monitoring
\* sets it to False, whether the try block returned or raised
OrchestrateFinally(active, raised) == FALSE

\* the statements of orchestrate before its try block: start_monitoring
StartMonitoring ==
    /\ pc = "start"
    /\ pc' = "decompose"
    /\ monitoring_active' = TRUE
    /\ UNCHANGED <<decVars, agVars, fanVars, synth_outcome, orch_calls, invocations, extVars>>
    /\ UNCHANGED <<num_agents, multi_model, priced, exc, subtasks, wstate,
                   wresult, ac_first, ac_ready, ac_pending, agent_results,
                   agent_progress, agent_result_text, agent_models,
                   agent_costs, synth_agents, synth_requests, final_result>>

\* ------------------------------------------------- orchestrate: decomposition
\* orchestrate up to the creation of the pool: reset of the progress tracking,
\* decompose_task, QUEUED marks
Decompose ==
    /\ pc = "decompose"
    /\ \E r \in DecomposeReplies :
         LET d == decompose_task(UserInput, num_agents, r) IN
         IF d.kind = "raise"
         THEN /\ pc' = "raised"
              /\ exc' = d.exc
              /\ agent_progress' = EmptyDict
              /\ monitoring_active' = OrchestrateFinally(monitoring_active, TRUE)
              /\ UNCHANGED subtasks
         ELSE /\ pc' = "submit"
              /\ subtasks' = d
              /\ agent_progress' = [i \in Agents |-> "QUEUED"]
              /\ UNCHANGED <<exc, monitoring_active>>
    /\ agent_result_text' = EmptyDict
    /\ UNCHANGED <<decVars, agVars, fanVars, synth_outcome, orch_calls, invocations, extVars>>
    /\ UNCHANGED <<num_agents, multi_model, priced, wstate, wresult, ac_first,
                   ac_ready, ac_pending, agent_results, agent_models,
                   agent_costs, synth_agents, synth_requests, final_result>>

\* the dict comprehension submitting run_agent_parallel(i, subtasks[i]):
\* futures 0..k-1 exist when subtasks[k] raises
Submit ==
    /\ pc = "submit"
    /\ LET bad == {i \in Agents : ~SubtaskLookup(subtasks, i).ok}
           k == IF bad = {} THEN num_agents
                ELSE CHOOSE i \in bad : \A j \in bad : i <= j
       IN /\ wstate' = [i \in Agents |-> IF i < k THEN "queued" ELSE "none"]
          /\ IF bad = {}
             THEN /\ pc' = "collect"
                  /\ ac_pending' = Agents
                  /\ UNCHANGED exc
             ELSE /\ pc' = "shutdown"
                  /\ exc' = SubtaskLookup(subtasks, k).exc
                  /\ UNCHANGED ac_pending
    /\ UNCHANGED <<decVars, agVars, fanVars, synth_outcome, orch_calls, invocations, monitoring_active, extVars>>
    /\ UNCHANGED <<num_agents, multi_model, priced, subtasks, wresult, ac_first,
                   ac_ready, agent_results, agent_progress, agent_result_text,
                   agent_models, agent_costs, synth_agents, synth_requests,
                   final_result>>

\* ------------------------------------------------------- run_agent_parallel
\* a pool thread enters run_agent_parallel: update_agent_progress(PROCESSING)
WorkerStart(i) ==
    /\ wstate[i] = "queued"
    /\ wstate' = [wstate EXCEPT ![i] = "running"]
    /\ agent_progress' = Put(agent_progress, i, "PROCESSING...")
    /\ invocations' = [invocations EXCEPT ![i] = @ + 1]
    /\ UNCHANGED <<decVars, agVars, fanVars, synth_outcome, orch_calls, monitoring_active, extVars>>
    /\ UNCHANGED <<num_agents, multi_model, priced, pc, exc, subtasks, wresult,
                   ac_first, ac_ready, ac_pending, agent_results,
                   agent_result_text, agent_models, agent_costs, synth_agents,
                   synth_requests, final_result>>

\* the rest of run_agent_parallel: model selection, agent construction,
\* agent.run, bookkeeping, and the except branch
WorkerFinish(i) ==
    /\ wstate[i] = "running"
    /\ \E o \in WorkerOutcomes :
         LET subtask == SubtaskLookup(subtasks, i).value
             res == WorkerResult(i, subtask, o)
         IN /\ wresult' = [wresult EXCEPT ![i] = res]
            /\ agent_models' = IF o \in {"ok", "run_fail"}
                               THEN Put(agent_models, i, _get_agent_model(i))
                               ELSE agent_models
            /\ IF o = "ok"
               THEN /\ agent_progress' = Put(agent_progress, i, "COMPLETED")
                    /\ agent_result_text' = Put(agent_result_text, i, res.response)
                    /\ agent_costs' = CostsAfterEstimate(agent_costs, i, TextLen(subtask),
                                                         TextLen(res.response))
               ELSE UNCHANGED <<agent_progress, agent_result_text, agent_costs>>
    /\ wstate' = [wstate EXCEPT ![i] = "done"]
    /\ UNCHANGED <<decVars, agVars, fanVars, synth_outcome, orch_calls, invocations, monitoring_active, extVars>>
    /\ UNCHANGED <<num_agents, multi_model, priced, pc, exc, subtasks, ac_first,
                   ac_ready, ac_pending, agent_results, synth_agents,
                   synth_requests, final_result>>

\* ------------------------------------------------------ orchestrate: fan-in
Done == {i \in Agents : wstate[i] = "done"}

\* as_completed looks at its futures: the initial snapshot (which may find
\* nothing finished), later a wake-up of the waiter by a finished future
AsCompletedPoll ==
    /\ pc = "collect"
    /\ ac_ready = {}
    /\ ac_pending # {}
    /\ ac_first \/ (ac_pending \cap Done # {})
    /\ ac_ready' = ac_pending \cap Done
    /\ ac_pending' = ac_pending \ Done
    /\ ac_first' = FALSE
    /\ UNCHANGED <<decVars, agVars, fanVars, synth_outcome, orch_calls, invocations, monitoring_active, extVars>>
    /\ UNCHANGED <<num_agents, multi_model, priced, pc, exc, subtasks, wstate,
                   wresult, agent_results, agent_progress, agent_result_text,
                   agent_models, agent_costs, synth_agents, synth_requests,
                   final_result>>

\* the entry the loop body appends for a yielded future: future.result(), or
\* the "timeout" dict when result() raises
CollectedEntry(i) ==
    IF wresult[i] = NoValue THEN TimeoutRecord(i) ELSE wresult[i]

\* one iteration of "for future in as_completed(...)"
Collect(i) ==
    /\ pc = "collect"
    /\ i \in ac_ready
    /\ ac_ready' = ac_ready \ {i}
    /\ agent_results' = Append(agent_results, CollectedEntry(i))
    /\ UNCHANGED <<decVars, agVars, fanVars, synth_outcome, orch_calls, invocations, monitoring_active, extVars>>
    /\ UNCHANGED <<num_agents, multi_model, priced, pc, exc, subtasks, wstate,
                   wresult, ac_first, ac_pending, agent_progress,
                   agent_result_text, agent_models, agent_costs, synth_agents,
                   synth_requests, final_result>>

\* task_timeout has elapsed while as_completed still waits for a future:
\* its iterator raises TimeoutError, outside the try of the loop body
AsCompletedTimeout ==
    /\ pc = "collect"
    /\ ~ac_first
    /\ ac_ready = {}
    /\ ac_pending # {}
    /\ pc' = "shutdown"
    /\ exc' = "TimeoutError"
    /\ UNCHANGED <<decVars, agVars, fanVars, synth_outcome, orch_calls, invocations, monitoring_active, extVars>>
    /\ UNCHANGED <<num_agents, multi_model, priced, subtasks, wstate, wresult,
                   ac_first, ac_ready, ac_pending, agent_results,
                   agent_progress, agent_result_text, agent_models,
                   agent_costs, synth_agents, synth_requests, final_result>>

\* an exception leaves the with block: ThreadPoolExecutor.__exit__ joins every
\* submitted worker (shutdown(wait=True)), then the exception leaves orchestrate
PoolShutdown ==
    /\ pc = "shutdown"
    /\ \A i \in Agents : wstate[i] \in {"none", "done"}
    /\ pc' = "raised"
    /\ monitoring_active' = OrchestrateFinally(monitoring_active, TRUE)
    /\ UNCHANGED <<decVars, agVars, fanVars, synth_outcome, orch_calls, invocations, extVars>>
    /\ UNCHANGED <<num_agents, multi_model, priced, exc, subtasks, wstate,
                   wresult, ac_first, ac_ready, ac_pending, agent_results,
                   agent_progress, agent_result_text, agent_models,
                   agent_costs, synth_agents, synth_requests, final_result>>

\* -------------------------------------------------------------- aggregation
\* list.sort(key=agent_id): stable insertion sort
RECURSIVE InsertById(_, _)
InsertById(sorted, r) ==
    IF sorted = <<>> THEN <<r>>
    ELSE IF r.agent_id < Head(sorted).agent_id THEN <<r>> \o sorted
    ELSE <<Head(sorted)>> \o InsertById(Tail(sorted), r)

\* orchestrate without agent_results.sort
SortById_NoSort(rs) == rs

RECURSIVE SortById(_)
SortById(rs) ==
    IF rs = <<>> THEN <<>>
    ELSE InsertById(SortById(SubSeq(rs, 1, Len(rs) - 1)), rs[Len(rs)])

\* [r for r in agent_results if r["status"] == "success"]
RECURSIVE SuccessfulResults(_)
SuccessfulResults(rs) ==
    IF rs = <<>> THEN <<>>
    ELSE (IF Head(rs).status = "success" THEN <<Head(rs)>> ELSE <<>>)
         \o SuccessfulResults(Tail(rs))

Responses(rs) == [j \in 1..Len(rs) |-> rs[j].response]

PromptHeader(j) == "=== AGENT " \o ToString(j) \o " RESPONSE ==="
FallbackHeader(j) == "=== Agent " \o ToString(j) \o " Response ==="

\* agent_responses_text of _aggregate_consensus
RECURSIVE AgentResponsesText(_, _)
AgentResponsesText(responses, j) ==
    IF j > Len(responses) THEN <<>>
    ELSE <<PromptHeader(j), "\n">> \o responses[j] \o <<"\n", "\n">>
         \o AgentResponsesText(responses, j + 1)

\* synthesis_prompt_template.format(num_responses=..., agent_responses=...)
SynthesisPrompt(responses) ==
    <<"Synthesize ", ToString(Len(responses)), " responses: ">>
    \o AgentResponsesText(responses, 1)

\* the list "combined" of the except branch of _aggregate_consensus
\* the except branch numbering its blocks with enumerate(responses)
Combined_FromZero(responses, j) ==
    [k \in 1..(3 * Len(responses)) |->
        CASE k % 3 = 1 -> <<FallbackHeader((k - 1) \div 3)>>
          [] k % 3 = 2 -> responses[(k + 1) \div 3]
          [] OTHER -> <<>>]

RECURSIVE Combined(_, _)
Combined(responses, j) ==
    IF j > Len(responses) THEN <<>>
    ELSE << <<FallbackHeader(j)>>, responses[j], <<>> >> \o Combined(responses, j + 1)

ConcatFallback(responses) == Join(Combined(responses, 1), "\n")

SynthesisAnswer == <<"Synthesized answer">>

\* where the synthesis step of _aggregate_consensus fails, if at all:
\*   create_retry : _create_agent_with_model fails once, its own fallback agent works
\*   create_retry2: _create_agent_with_model raises, the default agent of the
\*                  except branch of _aggregate_consensus works
\*   create_fail  : every UniversalAgent construction raises
\*   format_fail  : the synthesis prompt template cannot be formatted
\*   run_fail     : synthesis_agent.run raises
SynthesisOutcomes ==
    {"ok", "create_retry", "create_retry2", "create_fail", "format_fail", "run_fail"}

\* UniversalAgent constructions attempted for synthesis
SynthesisAgentsBuilt(o) ==
    CASE o = "create_retry" -> 2
      [] o \in {"create_retry2", "create_fail"} -> 3
      [] OTHER -> 1

\* self.agent_models after the synthesis agent has been created (or not)
ModelsAfterSynthesisAgent(models, o) ==
    CASE o \in {"create_retry2", "create_fail"} -> models
      [] o = "create_retry" -> Put(models, SynthesisId, DefaultModel)
      [] OTHER -> Put(models, SynthesisId, _get_synthesis_model)

\* a return of aggregate_results that built no agent and sent no request
PlainReturn(value, costs, models) ==
    [exc |-> "", value |-> value, requests |-> <<>>, built |-> 0,
     costs |-> costs, models |-> models, outcome |-> "none"]

\* _aggregate_consensus from "synthesis_model = ..." on (two or more responses)
Synthesize(responses, o, costs, models) ==
    LET prompt == SynthesisPrompt(responses)
        base == [exc |-> "", value |-> NoValue, requests |-> <<>>,
                 built |-> SynthesisAgentsBuilt(o), costs |-> costs,
                 models |-> ModelsAfterSynthesisAgent(models, o), outcome |-> o]
    IN CASE o = "create_fail" -> [base EXCEPT !.exc = "Exception"]
         [] o = "format_fail" -> [base EXCEPT !.exc = "KeyError"]
         [] o = "run_fail" ->
              [base EXCEPT !.value = ConcatFallback(responses),
                           !.requests = <<prompt>>]
         [] OTHER ->
              [base EXCEPT !.value = SynthesisAnswer,
                           !.requests = <<prompt>>,
                           !.costs = CostsAfterEstimate(costs, SynthesisId, TextLen(prompt),
                                                        TextLen(SynthesisAnswer))]

_aggregate_consensus_NoShortcut(responses, o, costs, models) ==
    Synthesize(responses, o, costs, models)

\* _aggregate_consensus(responses, results) with synthesis outcome o
_aggregate_consensus(responses, o, costs, models) ==
    IF Len(responses) = 1
    THEN PlainReturn(responses[1], costs, models)
    ELSE Synthesize(responses, o, costs, models)

aggregate_results_NoEmptyCheck(rs, o, costs, models) ==
    _aggregate_consensus(Responses(SuccessfulResults(rs)), o, costs, models)

\* aggregate_results(agent_results) with synthesis outcome o:
\* value returned (or exception raised), prompts sent, agents built, ledger
aggregate_results(rs, o, costs, models) ==
    LET successful_results == SuccessfulResults(rs)
    IN IF successful_results = <<>>
       THEN PlainReturn(AllFailedMsg, costs, models)
       ELSE _aggregate_consensus(Responses(successful_results), o, costs, models)

\* the tail of orchestrate once as_completed is exhausted: the with block
\* exits, agent_results.sort, aggregate_results, return
Aggregate ==
    /\ pc = "collect"
    /\ ~ac_first
    /\ ac_ready = {}
    /\ ac_pending = {}
    /\ \E o \in SynthesisOutcomes :
         LET a == aggregate_results(SortById(agent_results), o, agent_costs, agent_models)
         IN /\ agent_results' = SortById(agent_results)
            /\ synth_requests' = synth_requests \o a.requests
            /\ synth_agents' = synth_agents + a.built
            /\ synth_outcome' = a.outcome
            /\ agent_costs' = a.costs
            /\ agent_models' = a.models
            /\ monitoring_active' = OrchestrateFinally(monitoring_active, a.exc # "")
            /\ IF a.exc # ""
               THEN /\ pc' = "raised"
                    /\ exc' = a.exc
                    /\ UNCHANGED final_result
               ELSE /\ pc' = "returned"
                    /\ final_result' = a.value
                    /\ UNCHANGED exc
    /\ UNCHANGED <<decVars, agVars, fanVars, orch_calls, invocations, extVars>>
    /\ UNCHANGED <<num_agents, multi_model, priced, subtasks, wstate, wresult,
                   ac_first, ac_ready, ac_pending, agent_progress,
                   agent_result_text>>

\* ------------------------------------------- decompose_task called on its own
DecomposeCall ==
    /\ dq_out = NoValue
    /\ dq_reply # NoValue
    /\ dq_out' = decompose_task(UserInput, dq_n, dq_reply)
    /\ UNCHANGED <<dq_n, dq_reply>>
    /\ UNCHANGED <<orchVars, agVars, fanVars, monitoring_active, extVars>>

InitDecompose ==
    /\ dq_n \in 1..MaxN
    /\ dq_reply \in DecomposeReplies
    /\ dq_out = NoValue
    /\ AgentIdle
    /\ FanIdle
    /\ ExtIdle
    /\ monitoring_active = FALSE
    /\ num_agents = 1
    /\ multi_model = FALSE
    /\ priced = FALSE
    /\ OrchestratorFresh

NextDecompose == DecomposeCall

SpecDecompose == InitDecompose /\ [][NextDecompose]_vars

Next ==
    \/ StartMonitoring
    \/ Decompose
    \/ Submit
    \/ \E i \in Agents : WorkerStart(i)
    \/ \E i \in Agents : WorkerFinish(i)
    \/ AsCompletedPoll
    \/ \E i \in Agents : Collect(i)
    \/ AsCompletedTimeout
    \/ PoolShutdown
    \/ Aggregate

Spec == Init /\ [][Next]_vars

\* =========================================================== UniversalAgent
DefaultMaxIterations == 10   \* agent_config.get('max_iterations', 10)
MaxIterCfg == 2              \* a configured agent.max_iterations ranges over 0..MaxIterCfg
NotConfigured == 0 - 1       \* agent.max_iterations absent from the configuration

DeepSeekUrl == "https://api.deepseek.com"
OpenRouterUrl == "https://openrouter.ai/api/v1"
MaxIterationsMsg == <<"Maximum iterations reached. The agent may be stuck in a loop.">>

\* tool lists discover_tools may produce
DiscoveredTools == {<<>>, <<"mark_task_complete">>, <<"search_web", "mark_task_complete">>}

AgentConfigs ==
    [file : {"present", "missing"},
     provider : {"deepseek", "openrouter", "other"},
     api_key : {"test-key", ""},
     base_url : {DeepSeekUrl, OpenRouterUrl, ""},
     model : {"deepseek-chat", "gpt-4", ""},
     max_iterations : {NotConfigured} \cup (0..MaxIterCfg),
     tools : DiscoveredTools]

AgentRoles == {"single", "worker", "decompose", "synthesis"}

\* validate_deepseek_config without its check of the model name
ProviderConfigError_NoModelCheck(cfg) ==
    IF cfg.api_key = "" \/ cfg.base_url = "" \/ cfg.model = ""
    THEN "ConfigurationError"
    ELSE IF cfg.provider = "deepseek"
    THEN (IF cfg.base_url # DeepSeekUrl THEN "ConfigurationError" ELSE "")
    ELSE (IF cfg.base_url # OpenRouterUrl THEN "ConfigurationError" ELSE "")

\* validate_deepseek_config / validate_openrouter_config: the error, "" if none
ProviderConfigError(cfg) ==
    IF cfg.api_key = "" \/ cfg.base_url = "" \/ cfg.model = ""
    THEN "ConfigurationError"
    ELSE IF cfg.provider = "deepseek"
    THEN (IF cfg.base_url # DeepSeekUrl THEN "ConfigurationError"
          ELSE IF cfg.model \notin {"deepseek-chat", "deepseek-reasoner"}
          THEN "ConfigurationError" ELSE "")
    ELSE (IF cfg.base_url # OpenRouterUrl THEN "ConfigurationError" ELSE "")

\* the try block of UniversalAgent.__init__: load_config, get_provider_config,
\* create_client; the error it meets, "" if none
InitError(cfg) ==
    IF cfg.file = "missing" THEN "ConfigurationError"
    ELSE IF cfg.provider \notin {"openrouter", "deepseek"} THEN "ConfigurationError"
    ELSE IF ProviderConfigError(cfg) # "" THEN "ProviderError"
    ELSE ""

\* [tool for tool in agent.tools if name != 'mark_task_complete']
RECURSIVE StripComplete(_)
StripComplete(tools) ==
    IF tools = <<>> THEN <<>>
    ELSE (IF Head(tools) = "mark_task_complete" THEN <<>> ELSE <<Head(tools)>>)
         \o StripComplete(Tail(tools))

\* self.tools when run is called: as discovered for a single agent or a
\* worker, stripped for the decomposition agent, stripped and patched with
\* the placeholder for the synthesis agent
ToolsForRole(cfg, role) ==
    CASE role \in {"single", "worker"} -> cfg.tools
      [] role = "decompose" -> StripComplete(cfg.tools)
      [] OTHER ->
           IF StripComplete(cfg.tools) = <<>> /\ cfg.provider = "deepseek"
           THEN <<"dummy_tool">>
           ELSE StripComplete(cfg.tools)

max_iterations(cfg) ==
    IF cfg.max_iterations = NotConfigured THEN DefaultMaxIterations ELSE cfg.max_iterations

\* call_llm forwarding self.tools unchanged whenever it is non-empty only
RequestTools_PassThrough(provider_type, tools) ==
    IF tools # <<>> THEN [present |-> TRUE, list |-> tools]
    ELSE [present |-> FALSE, list |-> <<>>]

\* the tools parameter call_llm sends (present = FALSE: no tools parameter)
RequestTools(provider_type, tools) ==
    IF provider_type = "deepseek"
    THEN [present |-> TRUE,
          list |-> IF tools # <<>> THEN tools ELSE <<"dummy_tool">>]
    ELSE (IF tools # <<>> THEN [present |-> TRUE, list |-> tools]
          ELSE [present |-> FALSE, list |-> <<>>])

\* api_params of call_llm
Request(cfg, tools) ==
    [model |-> cfg.model, tools |-> RequestTools(cfg.provider, tools)]

\* call_llm re-raising every failure as a plain Exception
call_llm_error_Generic(provider_type) == "Exception"

\* the exception call_llm raises when the request fails
call_llm_error(provider_type) ==
    CASE provider_type = "deepseek" -> "DeepSeekAPIError"
      [] provider_type = "openrouter" -> "OpenRouterAPIError"
      [] OTHER -> "Exception"

\* tool calls of an assistant turn
SearchCall == [name |-> "search_web", args |-> "query"]
UnknownCall == [name |-> "no_such_tool", args |-> "query"]
CompleteCall(a) == [name |-> "mark_task_complete", args |-> a]
CompleteArgs == {"completion_message", "task_summary", "neither", "bad_json"}

ToolCallLists ==
    {<<>>, <<SearchCall>>, <<UnknownCall>>}
    \cup {<<CompleteCall(a)>> : a \in CompleteArgs}
    \cup {<<SearchCall, CompleteCall("completion_message")>>,
          <<CompleteCall("completion_message"), SearchCall>>}

\* what chat.completions.create does: an assistant turn, or a failure
LLMReplies ==
    [kind : {"turn"}, has_content : BOOLEAN, tool_calls : ToolCallLists]
    \cup [kind : {"api_error"}, has_content : {FALSE}, tool_calls : {<<>>}]

AssistantContent(iteration) == <<"Content " \o ToString(iteration)>>

\* what run captures from the arguments of a mark_task_complete call
CompletionCapture(call) ==
    CASE call.args = "completion_message" -> << <<"Task completed">> >>
      [] call.args = "task_summary" -> << <<"Task summary">> >>
      [] OTHER -> <<>>

IsComplete(call) == call.name = "mark_task_complete"

\* captures of the branch "elif tool_calls" (content empty): every
\* mark_task_complete call of the turn
RECURSIVE CapturesOfTurn(_)
CapturesOfTurn(calls) ==
    IF calls = <<>> THEN <<>>
    ELSE (IF IsComplete(Head(calls)) THEN CompletionCapture(Head(calls)) ELSE <<>>)
         \o CapturesOfTurn(Tail(calls))

\* full_response_content after the capture step of one iteration
ContentAfterTurn(content, reply, iteration) ==
    IF reply.has_content THEN Append(content, AssistantContent(iteration))
    ELSE content \o CapturesOfTurn(reply.tool_calls)

\* index of the first mark_task_complete call of the turn, 0 if none
FirstComplete(calls) ==
    IF \E k \in DOMAIN calls : IsComplete(calls[k])
    THEN CHOOSE k \in DOMAIN calls :
            IsComplete(calls[k]) /\ \A j \in 1..(k - 1) : ~IsComplete(calls[j])
    ELSE 0

\* "\n\n".join(full_response_content)
JoinContent(content) == Join(content, "\n\n")

\* the result of run_agent_parallel around a run that returned or raised
StatusAfterRun(role, raised) ==
    IF role # "worker" THEN "" ELSE IF raised THEN "error" ELSE "success"

\* the loop of run never leaving on mark_task_complete
RunReturnsOnComplete_Never(calls) == FALSE

\* the tool-call loop of run returns at the first mark_task_complete call
RunReturnsOnComplete(calls) == FirstComplete(calls) # 0

\* run joining whatever it gathered, also when that is nothing
LoopExitValue_JoinOnly(content) == JoinContent(content)

\* the value run returns once the while loop is exhausted
LoopExitValue(content) ==
    IF content # <<>> THEN JoinContent(content) ELSE MaxIterationsMsg

\* UniversalAgent.__init__ (and the stripping its caller does before run)
AgentConstruct ==
    /\ a_pc = "new"
    /\ IF InitError(a_cfg) # ""
       THEN /\ a_pc' = "init_failed"
            /\ a_exc' = "Exception"
            /\ a_status' = StatusAfterRun(a_role, TRUE)
            /\ UNCHANGED a_tools
       ELSE /\ a_pc' = "ready"
            /\ a_tools' = ToolsForRole(a_cfg, a_role)
            /\ UNCHANGED <<a_exc, a_status>>
    /\ UNCHANGED <<a_cfg, a_role, a_iter, a_requests, a_content, a_completed, a_out>>
    /\ UNCHANGED <<orchVars, decVars, fanVars, monitoring_active, extVars>>

\* one iteration of the while loop of run: call_llm, capture, tool calls
AgentIterate ==
    /\ a_pc \in {"ready", "running"}
    /\ a_iter < max_iterations(a_cfg)
    /\ a_iter' = a_iter + 1
    /\ a_requests' = Append(a_requests, Request(a_cfg, a_tools))
    /\ \E reply \in LLMReplies :
         IF reply.kind = "api_error"
         THEN /\ a_pc' = "raised"
              /\ a_exc' = call_llm_error(a_cfg.provider)
              /\ a_status' = StatusAfterRun(a_role, TRUE)
              /\ UNCHANGED <<a_content, a_completed, a_out>>
         ELSE LET captured == ContentAfterTurn(a_content, reply, a_iter + 1)
                  k == FirstComplete(reply.tool_calls)
              IN IF RunReturnsOnComplete(reply.tool_calls)
                 THEN /\ a_content' = captured \o CompletionCapture(reply.tool_calls[k])
                      /\ a_completed' = TRUE
                      /\ a_out' = [value |-> JoinContent(a_content')]
                      /\ a_pc' = "returned"
                      /\ a_status' = StatusAfterRun(a_role, FALSE)
                      /\ UNCHANGED a_exc
                 ELSE /\ a_content' = captured
                      /\ a_completed' = (a_completed \/ k # 0)
                      /\ a_pc' = "running"
                      /\ UNCHANGED <<a_exc, a_out, a_status>>
    /\ UNCHANGED <<a_cfg, a_role, a_tools>>
    /\ UNCHANGED <<orchVars, decVars, fanVars, monitoring_active, extVars>>

\* the while condition fails: run returns what it gathered
AgentLoopExit ==
    /\ a_pc \in {"ready", "running"}
    /\ a_iter >= max_iterations(a_cfg)
    /\ a_out' = [value |-> LoopExitValue(a_content)]
    /\ a_pc' = "returned"
    /\ a_status' = StatusAfterRun(a_role, FALSE)
    /\ UNCHANGED <<a_cfg, a_role, a_exc, a_tools, a_iter, a_requests, a_content,
                   a_completed>>
    /\ UNCHANGED <<orchVars, decVars, fanVars, monitoring_active, extVars>>

InitAgent ==
    /\ a_cfg \in AgentConfigs
    /\ a_role \in AgentRoles
    /\ a_pc = "new"
    /\ a_exc = ""
    /\ a_tools = <<>>
    /\ a_iter = 0
    /\ a_requests = <<>>
    /\ a_content = <<>>
    /\ a_completed = FALSE
    /\ a_out = NoValue
    /\ a_status = ""
    /\ num_agents = 1
    /\ multi_model = FALSE
    /\ priced = FALSE
    /\ OrchestratorFresh
    /\ dq_n = 1
    /\ dq_reply = NoValue
    /\ dq_out = NoValue
    /\ FanIdle
    /\ ExtIdle
    /\ monitoring_active = FALSE

NextAgent ==
    \/ AgentConstruct
    \/ AgentIterate
    \/ AgentLoopExit

SpecAgent == InitAgent /\ [][NextAgent]_vars

\* ================================================= orchestrate called again
MaxCalls == 2       \* orchestrate calls made on one TaskOrchestrator
LedgerAgents == 2   \* parallel_agents of the orchestrator that is called again

\* sum(d.values())
RECURSIVE SumValues(_)
SumValues(d) ==
    IF DOMAIN d = {} THEN 0
    ELSE LET k == CHOOSE x \in DOMAIN d : TRUE
         IN d[k] + SumValues([x \in DOMAIN d \ {k} |-> d[x]])

get_execution_summary ==
    [agent_models |-> agent_models,
     agent_costs |-> agent_costs,
     total_estimated_cost |-> SumValues(agent_costs)]

\* the command loop calls orchestrate again on the same TaskOrchestrator: the
\* locals of orchestrate start anew, the attributes of the object stay
OrchestrateAgain ==
    /\ pc \in {"returned", "raised"}
    /\ orch_calls < MaxCalls
    /\ orch_calls' = orch_calls + 1
    /\ pc' = "start"
    /\ exc' = ""
    /\ subtasks' = NoValue
    /\ wstate' = [i \in Agents |-> "none"]
    /\ wresult' = [i \in Agents |-> NoValue]
    /\ invocations' = [i \in Agents |-> 0]
    /\ ac_first' = TRUE
    /\ ac_ready' = {}
    /\ ac_pending' = {}
    /\ agent_results' = <<>>
    /\ synth_agents' = 0
    /\ synth_requests' = <<>>
    /\ final_result' = NoValue
    /\ synth_outcome' = "none"
    /\ UNCHANGED <<num_agents, multi_model, priced, agent_progress,
                   agent_result_text, agent_models, agent_costs>>
    /\ UNCHANGED <<decVars, agVars, fanVars, monitoring_active, extVars>>

InitLedger ==
    /\ num_agents \in 1..LedgerAgents
    /\ multi_model = FALSE
    /\ priced \in BOOLEAN
    /\ OrchestratorFresh
    /\ dq_n = 1
    /\ dq_reply = NoValue
    /\ dq_out = NoValue
    /\ AgentIdle
    /\ FanIdle
    /\ ExtIdle
    /\ monitoring_active = FALSE

NextLedger ==
    \/ Next
    \/ OrchestrateAgain

SpecLedger == InitLedger /\ [][NextLedger]_vars

\* ================================== run_agent_parallel, one statement at a time
MaxFanWorkers == 2   \* pool threads followed statement by statement

\* the orchestrator state the pool threads do not write
fanFrame == <<num_agents, multi_model, priced, pc, exc, subtasks, wstate, wresult,
              ac_first, ac_ready, ac_pending, agent_results, synth_agents,
              synth_requests, final_result, synth_outcome, orch_calls, invocations>>

ThreadName(i) == "thread " \o ToString(i)

\* a write of thread i to target[key], and whether i holds progress_lock
WriteBy(i, target, key) ==
    [thread |-> i, target |-> target, key |-> key, locked |-> f_lock = ThreadName(i)]

\* the position behind each "with self.progress_lock:"
InsideLock(pos) ==
    CASE pos = "progress_lock" -> "progress_write"
      [] pos = "models_lock" -> "models_write"
      [] pos = "fallback_lock" -> "fallback_write"
      [] pos = "completed_lock" -> "completed_write"
      [] pos = "cost_lock" -> "cost_write"

\* thread i enters "with self.progress_lock:"
LockAcquire(i) ==
    /\ f_pc[i] \in {"progress_lock", "models_lock", "fallback_lock", "completed_lock",
                    "cost_lock"}
    /\ f_lock = "free"
    /\ f_lock' = ThreadName(i)
    /\ f_pc' = [f_pc EXCEPT ![i] = InsideLock(@)]
    /\ UNCHANGED <<f_writes, f_config_model, f_monitor>>
    /\ UNCHANGED <<fanFrame, agent_progress, agent_result_text, agent_models, agent_costs>>
    /\ UNCHANGED <<decVars, agVars, monitoring_active, extVars>>

\* the body of update_agent_progress, and the release of the lock
update_agent_progress(i) ==
    /\ f_pc[i] \in {"progress_write", "completed_write"}
    /\ IF f_pc[i] = "progress_write"
       THEN /\ agent_progress' = Put(agent_progress, i, "PROCESSING...")
            /\ f_writes' = f_writes \cup {WriteBy(i, "agent_progress", ToString(i))}
            /\ f_pc' = [f_pc EXCEPT ![i] = "config_write"]
            /\ UNCHANGED agent_result_text
       ELSE /\ agent_progress' = Put(agent_progress, i, "COMPLETED")
            /\ agent_result_text' = Put(agent_result_text, i, AgentAnswer(i))
            /\ f_writes' = f_writes \cup {WriteBy(i, "agent_progress", ToString(i)),
                                          WriteBy(i, "agent_results", ToString(i))}
            /\ f_pc' = [f_pc EXCEPT ![i] = IF priced THEN "cost_lock" ELSE "done"]
    /\ f_lock' = "free"
    /\ UNCHANGED <<f_config_model, f_monitor>>
    /\ UNCHANGED <<fanFrame, agent_models, agent_costs>>
    /\ UNCHANGED <<decVars, agVars, monitoring_active, extVars>>

\* _create_agent_with_model: temp_config = self.config.copy() is a shallow
\* copy, so temp_config[provider_type]['model'] = model writes the provider
\* dict of self.config
TempConfigWrite(i) ==
    /\ f_pc[i] = "config_write"
    /\ f_config_model' = _get_agent_model(i)
    /\ f_writes' = f_writes \cup {WriteBy(i, "config", "model")}
    /\ f_pc' = [f_pc EXCEPT ![i] = "construct"]
    /\ UNCHANGED <<f_lock, f_monitor>>
    /\ UNCHANGED <<fanFrame, agent_progress, agent_result_text, agent_models, agent_costs>>
    /\ UNCHANGED <<decVars, agVars, monitoring_active, extVars>>

\* _create_agent_with_model: UniversalAgent(...) works, or fails and the
\* fallback agent of the except branch works, or both fail
AgentCreate(i) ==
    /\ f_pc[i] = "construct"
    /\ \E next \in {"models_lock", "fallback_lock", "done"} :
          f_pc' = [f_pc EXCEPT ![i] = next]
    /\ UNCHANGED <<f_lock, f_writes, f_config_model, f_monitor>>
    /\ UNCHANGED <<fanFrame, agent_progress, agent_result_text, agent_models, agent_costs>>
    /\ UNCHANGED <<decVars, agVars, monitoring_active, extVars>>

\* self.agent_models[agent_id] = ..., and the release of the lock
TrackModel(i) ==
    /\ f_pc[i] \in {"models_write", "fallback_write"}
    /\ agent_models' = Put(agent_models, i,
                           IF f_pc[i] = "models_write" THEN _get_agent_model(i)
                           ELSE DefaultModel)
    /\ f_writes' = f_writes \cup {WriteBy(i, "agent_models", ToString(i))}
    /\ f_pc' = [f_pc EXCEPT ![i] = "run"]
    /\ f_lock' = "free"
    /\ UNCHANGED <<f_config_model, f_monitor>>
    /\ UNCHANGED <<fanFrame, agent_progress, agent_result_text, agent_costs>>
    /\ UNCHANGED <<decVars, agVars, monitoring_active, extVars>>

\* agent.run(subtask) returns or raises
AgentRun(i) ==
    /\ f_pc[i] = "run"
    /\ \E next \in {"completed_lock", "done"} :
          f_pc' = [f_pc EXCEPT ![i] = next]
    /\ UNCHANGED <<f_lock, f_writes, f_config_model, f_monitor>>
    /\ UNCHANGED <<fanFrame, agent_progress, agent_result_text, agent_models, agent_costs>>
    /\ UNCHANGED <<decVars, agVars, monitoring_active, extVars>>

\* _estimate_agent_cost: self.agent_costs[agent_id] += total_cost, and the
\* release of the lock
TrackCost(i) ==
    /\ f_pc[i] = "cost_write"
    /\ agent_costs' = CostsAfterEstimate(agent_costs, i,
                                         TextLen(SubtaskLookup(subtasks, i).value),
                                         TextLen(AgentAnswer(i)))
    /\ f_writes' = f_writes \cup {WriteBy(i, "agent_costs", ToString(i))}
    /\ f_pc' = [f_pc EXCEPT ![i] = IF f_monitor THEN "monitor_write" ELSE "done"]
    /\ f_lock' = "free"
    /\ UNCHANGED <<f_config_model, f_monitor>>
    /\ UNCHANGED <<fanFrame, agent_progress, agent_result_text, agent_models>>
    /\ UNCHANGED <<decVars, agVars, monitoring_active, extVars>>

\* _estimate_agent_cost: self.cost_monitor.record_agent_cost(...), called
\* after progress_lock was released; it appends to cost_entries and adds to
\* total_cost and agent_costs[agent_id] under the monitor's own lock
RecordAgentCost(i) ==
    /\ f_pc[i] = "monitor_write"
    /\ f_writes' = f_writes \cup {WriteBy(i, "cost_monitor", "cost_entries"),
                                  WriteBy(i, "cost_monitor", "total_cost"),
                                  WriteBy(i, "cost_monitor.agent_costs", ToString(i))}
    /\ f_pc' = [f_pc EXCEPT ![i] = "done"]
    /\ UNCHANGED <<f_lock, f_config_model, f_monitor>>
    /\ UNCHANGED <<fanFrame, agent_progress, agent_result_text, agent_models, agent_costs>>
    /\ UNCHANGED <<decVars, agVars, monitoring_active, extVars>>

\* the pool threads right after the submissions of orchestrate
InitFanOut ==
    /\ num_agents \in 1..MaxFanWorkers
    /\ multi_model \in BOOLEAN
    /\ priced \in BOOLEAN
    /\ pc = "collect"
    /\ exc = ""
    /\ subtasks = [kind |-> "list", items |-> [j \in 1..num_agents |-> Question(j)],
                   exc |-> ""]
    /\ wstate = [i \in Agents |-> "running"]
    /\ wresult = [i \in Agents |-> NoValue]
    /\ ac_first = TRUE
    /\ ac_ready = {}
    /\ ac_pending = Agents
    /\ agent_results = <<>>
    /\ agent_progress = [i \in Agents |-> "QUEUED"]
    /\ agent_result_text = EmptyDict
    /\ agent_models = EmptyDict
    /\ agent_costs = EmptyDict
    /\ synth_agents = 0
    /\ synth_requests = <<>>
    /\ final_result = NoValue
    /\ synth_outcome = "none"
    /\ orch_calls = 1
    /\ invocations = [i \in Agents |-> 1]
    /\ f_pc = [i \in Agents |-> "progress_lock"]
    /\ f_lock = "free"
    /\ f_writes = {}
    /\ f_config_model = DefaultModel
    /\ f_monitor \in BOOLEAN
    /\ dq_n = 1
    /\ dq_reply = NoValue
    /\ dq_out = NoValue
    /\ AgentIdle
    /\ ExtIdle
    /\ monitoring_active = FALSE

NextFanOut ==
    \/ \E i \in Agents : LockAcquire(i)
    \/ \E i \in Agents : update_agent_progress(i)
    \/ \E i \in Agents : TempConfigWrite(i)
    \/ \E i \in Agents : AgentCreate(i)
    \/ \E i \in Agents : TrackModel(i)
    \/ \E i \in Agents : AgentRun(i)
    \/ \E i \in Agents : TrackCost(i)
    \/ \E i \in Agents : RecordAgentCost(i)

SpecFanOut == InitFanOut /\ [][NextFanOut]_vars

\* ============================================================== CostMonitor
MaxRecorders == 2   \* threads calling record_agent_cost
MaxRecords == 3     \* record_agent_cost calls in one run
MaxResets == 1      \* reset_session calls

\* budgets whose 50% and 80% are whole cost units
BudgetLimits == {10, 20}
CostValues == {0, 5, 12}
Recorders == 0..(MaxRecorders - 1)

\* TaskOrchestrator and UniversalAgent not under observation
CoreIdle ==
    /\ num_agents = 1
    /\ multi_model = FALSE
    /\ priced = FALSE
    /\ OrchestratorFresh
    /\ monitoring_active = FALSE
    /\ dq_n = 1
    /\ dq_reply = NoValue
    /\ dq_out = NoValue
    /\ AgentIdle
    /\ FanIdle

\* _setup_default_alerts: the alerts in list order, and their thresholds
AlertTypes == <<"warning", "critical", "budget_exceeded">>

Threshold(alert_type, budget_limit) ==
    CASE alert_type = "warning" -> (budget_limit * 5) \div 10
      [] alert_type = "critical" -> (budget_limit * 8) \div 10
      [] OTHER -> budget_limit

\* _check_alerts without the test of alert.triggered
_check_alerts_NoLatch(total, triggered, budget_limit) ==
    SelectSeq(AlertTypes, LAMBDA a : total >= Threshold(a, budget_limit))

\* _check_alerts: the alerts it triggers, in the order it calls alert_callback
_check_alerts(total, triggered, budget_limit) ==
    SelectSeq(AlertTypes, LAMBDA a : ~triggered[a] /\ total >= Threshold(a, budget_limit))

\* a "with self.lock:" that never blocks
LockFree_Always(holder) == TRUE

\* "with self.lock:" can be entered
LockFree(holder) == holder = "free"

\* record_agent_cost(agent_id = t, cost = c) called by thread t: the lock is taken
RecordEnter(t) ==
    /\ cm_pc[t] = "idle"
    /\ cm_records < MaxRecords
    /\ cm_records' = cm_records + 1
    /\ LockFree(cm_lock)
    /\ cm_lock' = ThreadName(t)
    /\ \E c \in CostValues : cm_cost' = [cm_cost EXCEPT ![t] = c]
    /\ cm_pc' = [cm_pc EXCEPT ![t] = "append"]
    /\ UNCHANGED <<cm_budget_limit, cm_total_cost, cm_agent_costs, cm_cost_entries,
                   cm_triggered, cm_callbacks, cm_loaded, cm_resets>>
    /\ UNCHANGED <<orchVars, decVars, agVars, fanVars, monitoring_active, toolVars, mgrVars,
                   loopVars>>

\* self.cost_entries.append(entry), and the read of "self.total_cost += cost"
RecordAppend(t) ==
    /\ cm_pc[t] = "append"
    /\ cm_cost_entries' = Append(cm_cost_entries, [agent_id |-> t, cost |-> cm_cost[t]])
    /\ cm_loaded' = [cm_loaded EXCEPT ![t] = cm_total_cost]
    /\ cm_pc' = [cm_pc EXCEPT ![t] = "store"]
    /\ UNCHANGED <<cm_budget_limit, cm_total_cost, cm_agent_costs, cm_triggered,
                   cm_callbacks, cm_lock, cm_cost, cm_resets, cm_records>>
    /\ UNCHANGED <<orchVars, decVars, agVars, fanVars, monitoring_active, toolVars, mgrVars,
                   loopVars>>

\* the write of "self.total_cost += cost", and self.agent_costs[agent_id] += cost
RecordStore(t) ==
    /\ cm_pc[t] = "store"
    /\ cm_total_cost' = cm_loaded[t] + cm_cost[t]
    /\ cm_agent_costs' = Put(cm_agent_costs, t,
                             (IF t \in DOMAIN cm_agent_costs THEN cm_agent_costs[t] ELSE 0)
                             + cm_cost[t])
    /\ cm_pc' = [cm_pc EXCEPT ![t] = "alerts"]
    /\ UNCHANGED <<cm_budget_limit, cm_cost_entries, cm_triggered, cm_callbacks,
                   cm_lock, cm_cost, cm_loaded, cm_resets, cm_records>>
    /\ UNCHANGED <<orchVars, decVars, agVars, fanVars, monitoring_active, toolVars, mgrVars,
                   loopVars>>

\* self._check_alerts(), and the release of the lock
RecordCheckAlerts(t) ==
    /\ cm_pc[t] = "alerts"
    /\ LET fire == _check_alerts(cm_total_cost, cm_triggered, cm_budget_limit)
       IN /\ cm_triggered' = [a \in DOMAIN cm_triggered |->
                                 cm_triggered[a] \/ (\E k \in DOMAIN fire : fire[k] = a)]
          /\ cm_callbacks' = cm_callbacks \o
                [k \in DOMAIN fire |-> [alert_type |-> fire[k],
                                        entries |-> Len(cm_cost_entries)]]
    /\ cm_lock' = "free"
    /\ cm_pc' = [cm_pc EXCEPT ![t] = "idle"]
    /\ UNCHANGED <<cm_budget_limit, cm_total_cost, cm_agent_costs, cm_cost_entries,
                   cm_cost, cm_loaded, cm_resets, cm_records>>
    /\ UNCHANGED <<orchVars, decVars, agVars, fanVars, monitoring_active, toolVars, mgrVars,
                   loopVars>>

\* reset_session, all of it under the lock
reset_session ==
    /\ cm_resets < MaxResets
    /\ LockFree(cm_lock)
    /\ cm_cost_entries' = <<>>
    /\ cm_total_cost' = 0
    /\ cm_agent_costs' = EmptyDict
    /\ cm_triggered' = [a \in DOMAIN cm_triggered |-> FALSE]
    /\ cm_resets' = cm_resets + 1
    /\ UNCHANGED <<cm_budget_limit, cm_callbacks, cm_lock, cm_pc, cm_cost, cm_loaded,
                   cm_records>>
    /\ UNCHANGED <<orchVars, decVars, agVars, fanVars, monitoring_active, toolVars, mgrVars,
                   loopVars>>

\* CostMonitor(budget_limit, alert_callback)
InitCost ==
    /\ cm_budget_limit \in BudgetLimits
    /\ cm_total_cost = 0
    /\ cm_agent_costs = EmptyDict
    /\ cm_cost_entries = <<>>
    /\ cm_triggered = [a \in {AlertTypes[k] : k \in DOMAIN AlertTypes} |-> FALSE]
    /\ cm_callbacks = <<>>
    /\ cm_lock = "free"
    /\ cm_pc = [t \in Recorders |-> "idle"]
    /\ cm_cost = [t \in Recorders |-> 0]
    /\ cm_loaded = [t \in Recorders |-> 0]
    /\ cm_resets = 0
    /\ cm_records = 0
    /\ CoreIdle
    /\ ToolIdle
    /\ ManagerIdle
    /\ LoopIdle

NextCost ==
    \/ \E t \in Recorders : RecordEnter(t)
    \/ \E t \in Recorders : RecordAppend(t)
    \/ \E t \in Recorders : RecordStore(t)
    \/ \E t \in Recorders : RecordCheckAlerts(t)
    \/ reset_session

SpecCost == InitCost /\ [][NextCost]_vars

\* ===================================================== the conversation of run
MaxToolIters == 2   \* max_iterations of the agent whose conversation is followed

ToolLoopProviders == {"deepseek", "openrouter"}
ToolLoopTools == {<<>>, <<"search_web", "failing_tool", "mark_task_complete">>}

\* a tool call of an assistant turn: the k-th call of iteration i
ToolCall(i, k, kind) == [id |-> 10 * i + k, name |-> kind.name, args |-> kind.args]

ToolCallKinds ==
    {[name |-> "search_web", args |-> "json"],
     [name |-> "search_web", args |-> "bad_json"],
     [name |-> "no_such_tool", args |-> "json"],
     [name |-> "failing_tool", args |-> "json"],
     [name |-> "mark_task_complete", args |-> "json"]}

\* the tool_calls an assistant turn can carry
TurnToolCalls(i) ==
    {<<>>}
    \cup {<<ToolCall(i, 1, a)>> : a \in ToolCallKinds}
    \cup {<<ToolCall(i, 1, a), ToolCall(i, 2, b)>> : a, b \in ToolCallKinds}

Message(role, content, tool_call_id, tool_calls) ==
    [role |-> role, content |-> content, tool_call_id |-> tool_call_id,
     tool_calls |-> tool_calls]

\* content of the message handle_tool_call returns
ToolResultContent(call, tool_names) ==
    IF call.args = "bad_json" THEN "error: Tool execution failed"
    ELSE IF ~(\E k \in DOMAIN tool_names : tool_names[k] = call.name)
    THEN "error: Unknown tool"
    ELSE IF call.name = "failing_tool" THEN "error: Tool execution failed"
    ELSE "result"

handle_tool_call(call, tool_names) ==
    Message("tool", ToolResultContent(call, tool_names), call.id, <<>>)

\* the tool calls the for loop of run handles: all of them, or those up to
\* the first mark_task_complete call, at which run returns
HandledCalls(calls) ==
    IF FirstComplete(calls) = 0 THEN calls ELSE SubSeq(calls, 1, FirstComplete(calls))

\* call_llm passing only the newest message on
api_params_NoHistory(model, messages, provider_type, tools) ==
    [model |-> model, messages |-> <<messages[Len(messages)]>>,
     tools |-> RequestTools(provider_type, tools)]

\* api_params of call_llm
api_params(model, messages, provider_type, tools) ==
    [model |-> model, messages |-> messages, tools |-> RequestTools(provider_type, tools)]

\* one iteration of the while loop of run, with the messages it exchanges
ToolLoopIterate ==
    /\ t_pc = "running"
    /\ t_iter < MaxToolIters
    /\ t_iter' = t_iter + 1
    /\ t_requests' = Append(t_requests, api_params(t_model, t_messages, t_provider, t_tools))
    /\ \/ /\ t_pc' = "raised"
          /\ UNCHANGED t_messages
       \/ \E calls \in TurnToolCalls(t_iter + 1) :
            LET handled == HandledCalls(calls)
                content == IF calls = <<>> THEN "text" ELSE ""
            IN /\ t_messages' = Append(t_messages, Message("assistant", content, 0, calls))
                                \o [k \in DOMAIN handled |->
                                       handle_tool_call(handled[k], t_tools)]
               /\ t_pc' = IF RunReturnsOnComplete(calls) THEN "returned" ELSE "running"
    /\ UNCHANGED <<t_provider, t_model, t_tools>>
    /\ UNCHANGED <<orchVars, decVars, agVars, fanVars, monitoring_active, cmVars, mgrVars,
                   loopVars>>

\* the while condition of run fails
ToolLoopExit ==
    /\ t_pc = "running"
    /\ t_iter >= MaxToolIters
    /\ t_pc' = "returned"
    /\ UNCHANGED <<t_provider, t_model, t_tools, t_messages, t_requests, t_iter>>
    /\ UNCHANGED <<orchVars, decVars, agVars, fanVars, monitoring_active, cmVars, mgrVars,
                   loopVars>>

\* run(user_input) entered: messages holds the system and the user message
InitToolLoop ==
    /\ t_provider \in ToolLoopProviders
    /\ t_model = IF t_provider = "deepseek" THEN "deepseek-chat" ELSE "openrouter-model"
    /\ t_tools \in ToolLoopTools
    /\ t_messages = <<Message("system", "system_prompt", 0, <<>>),
                      Message("user", "user_input", 0, <<>>)>>
    /\ t_requests = <<>>
    /\ t_pc = "running"
    /\ t_iter = 0
    /\ CoreIdle
    /\ CostIdle
    /\ ManagerIdle
    /\ LoopIdle

NextToolLoop ==
    \/ ToolLoopIterate
    \/ ToolLoopExit

SpecToolLoop == InitToolLoop /\ [][NextToolLoop]_vars

\* ============================================================= AgentManager
MaxExecutions == 2   \* run_async calls made on one AgentManager

Executions == 0..(MaxExecutions - 1)

\* run_async: the background thread is started and the call returns
run_async(e) ==
    /\ m_pc[e] = "unstarted"
    /\ m_pc' = [m_pc EXCEPT ![e] = "started"]
    /\ UNCHANGED <<m_is_running, m_mode, m_outcome, m_cb_calls>>
    /\ UNCHANGED <<orchVars, decVars, agVars, fanVars, monitoring_active, cmVars, toolVars,
                   loopVars>>

\* run_in_background reads current_mode and enters run_single_agent or
\* run_heavy_mode, whose first statement sets is_running
RunBegin(e) ==
    /\ m_pc[e] = "started"
    /\ \E mode \in {"single", "heavy"} : m_mode' = [m_mode EXCEPT ![e] = mode]
    /\ m_is_running' = TRUE
    /\ m_pc' = [m_pc EXCEPT ![e] = "running"]
    /\ UNCHANGED <<m_outcome, m_cb_calls>>
    /\ UNCHANGED <<orchVars, decVars, agVars, fanVars, monitoring_active, cmVars, toolVars,
                   loopVars>>

\* run_single_agent or run_heavy_mode ends: is_running is cleared, and the
\* result is returned or the wrapped exception raised
RunEnd(e) ==
    /\ m_pc[e] = "running"
    /\ m_is_running' = FALSE
    /\ \/ /\ m_outcome' = [m_outcome EXCEPT ![e] = "success"]
          /\ m_pc' = [m_pc EXCEPT ![e] = "callback"]
       \/ /\ m_outcome' = [m_outcome EXCEPT ![e] = "failure"]
          /\ m_pc' = [m_pc EXCEPT ![e] = "except"]
    /\ UNCHANGED <<m_mode, m_cb_calls>>
    /\ UNCHANGED <<orchVars, decVars, agVars, fanVars, monitoring_active, cmVars, toolVars,
                   loopVars>>

\* callback_to_use(result) inside the try block: the callback returns, or it
\* raises and the except branch is entered
CallbackWithResult(e) ==
    /\ m_pc[e] = "callback"
    /\ m_cb_calls' = [m_cb_calls EXCEPT ![e] = Append(@, "result")]
    /\ \/ m_pc' = [m_pc EXCEPT ![e] = "done"]
       \/ m_pc' = [m_pc EXCEPT ![e] = "except"]
    /\ UNCHANGED <<m_is_running, m_mode, m_outcome>>
    /\ UNCHANGED <<orchVars, decVars, agVars, fanVars, monitoring_active, cmVars, toolVars,
                   loopVars>>

\* the except branch of run_in_background: callback_to_use("Error: ...")
CallbackWithError(e) ==
    /\ m_pc[e] = "except"
    /\ m_cb_calls' = [m_cb_calls EXCEPT ![e] = Append(@, "Error")]
    /\ m_pc' = [m_pc EXCEPT ![e] = "done"]
    /\ UNCHANGED <<m_is_running, m_mode, m_outcome>>
    /\ UNCHANGED <<orchVars, decVars, agVars, fanVars, monitoring_active, cmVars, toolVars,
                   loopVars>>

is_agent_running == m_is_running

InitManager ==
    /\ m_is_running = FALSE
    /\ m_pc = [e \in Executions |-> "unstarted"]
    /\ m_mode = [e \in Executions |-> ""]
    /\ m_outcome = [e \in Executions |-> ""]
    /\ m_cb_calls = [e \in Executions |-> <<>>]
    /\ CoreIdle
    /\ CostIdle
    /\ ToolIdle
    /\ LoopIdle

NextManager ==
    \/ \E e \in Executions : run_async(e)
    \/ \E e \in Executions : RunBegin(e)
    \/ \E e \in Executions : RunEnd(e)
    \/ \E e \in Executions : CallbackWithResult(e)
    \/ \E e \in Executions : CallbackWithError(e)

SpecManager == InitManager /\ [][NextManager]_vars

\* ================================================== CostMonitor's loop thread
MaxLoops == 3   \* monitoring-loop threads created on one CostMonitor

LoopThreads == 0..(MaxLoops - 1)

\* start_monitoring: nothing when monitoring is active, else the flag is set
\* and a new daemon thread enters _monitoring_loop
start_monitoring ==
    /\ IF monitoring_active
       THEN UNCHANGED <<monitoring_active, loopVars>>
       ELSE /\ l_started < MaxLoops
            /\ monitoring_active' = TRUE
            /\ l_threads' = [l_threads EXCEPT ![l_started].st = "checking"]
            /\ l_monitor_thread' = l_started
            /\ l_started' = l_started + 1
    /\ UNCHANGED <<orchVars, decVars, agVars, fanVars, cmVars, toolVars, mgrVars>>

\* what join(timeout=1.0) finds: a thread at the while test sees the cleared
\* flag and ends within the timeout; a thread inside time.sleep(check_interval),
\* 5 seconds by default, ends in time or is still asleep when join gives up
JoinOutcomes(th) ==
    CASE th.st = "checking" -> {"exited"}
      [] th.st = "sleeping" -> {"exited", "sleeping"}
      [] OTHER -> {th.st}

\* stop_monitoring: the flag is cleared and monitor_thread joined for a second
stop_monitoring ==
    /\ monitoring_active' = FALSE
    /\ IF l_monitor_thread = 0 - 1
       THEN UNCHANGED l_threads
       ELSE \E st \in JoinOutcomes(l_threads[l_monitor_thread]) :
               l_threads' = [t \in DOMAIN l_threads |->
                               [st |-> IF t = l_monitor_thread THEN st ELSE l_threads[t].st,
                                stopped |-> l_threads[t].stopped \/ l_threads[t].st # "unborn",
                                survived |-> l_threads[t].survived]]
    /\ UNCHANGED <<l_monitor_thread, l_started>>
    /\ UNCHANGED <<orchVars, decVars, agVars, fanVars, cmVars, toolVars, mgrVars>>

\* "while self.monitoring_active:" evaluated by thread t
LoopCheck(t) ==
    /\ l_threads[t].st = "checking"
    /\ l_threads' = [l_threads EXCEPT
                       ![t].st = IF monitoring_active THEN "sleeping" ELSE "exited",
                       ![t].survived = @ \/ (monitoring_active /\ l_threads[t].stopped)]
    /\ UNCHANGED <<monitoring_active, l_monitor_thread, l_started>>
    /\ UNCHANGED <<orchVars, decVars, agVars, fanVars, cmVars, toolVars, mgrVars>>

\* time.sleep(check_interval) of thread t returns
LoopWake(t) ==
    /\ l_threads[t].st = "sleeping"
    /\ l_threads' = [l_threads EXCEPT ![t].st = "checking"]
    /\ UNCHANGED <<monitoring_active, l_monitor_thread, l_started>>
    /\ UNCHANGED <<orchVars, decVars, agVars, fanVars, cmVars, toolVars, mgrVars>>

InitLoop ==
    /\ monitoring_active = FALSE
    /\ l_threads = [t \in LoopThreads |->
                      [st |-> "unborn", stopped |-> FALSE, survived |-> FALSE]]
    /\ l_monitor_thread = 0 - 1
    /\ l_started = 0
    /\ CoreIdle
    /\ CostIdle
    /\ ToolIdle
    /\ ManagerIdle

NextLoop ==
    \/ start_monitoring
    \/ stop_monitoring
    \/ \E t \in LoopThreads : LoopCheck(t)
    \/ \E t \in LoopThreads : LoopWake(t)

SpecLoop == InitLoop /\ [][NextLoop]_vars

\* ================================================================== claims
\* workers whose run_agent_parallel returned status "success"
Succeeded == {i \in Agents : wresult[i] # NoValue /\ wresult[i].status = "success"}

\* the successful workers in index order
RECURSIVE SucceededFrom(_)
SucceededFrom(i) ==
    IF i >= num_agents THEN <<>>
    ELSE (IF i \in Succeeded THEN <<i>> ELSE <<>>) \o SucceededFrom(i + 1)

\* orchestrate has left its fan-in with every future collected
AggregationDone == pc \in {"returned", "raised"} /\ Len(agent_results) = num_agents

EntriesFor(i) ==
    {j \in DOMAIN agent_results :
        /\ agent_results[j].agent_id = i
        /\ agent_results[j].status \in {"success", "error", "timeout"}}

\* C1: once orchestrate is over and every sub-question was submitted, the
\* result list holds exactly one entry (success, error or timeout) for each
\* index 0..N-1.
C1_OneResultPerIndex ==
    (pc \in {"returned", "raised"} /\ \A i \in Agents : wstate[i] # "none")
        => \A i \in Agents : Cardinality(EntriesFor(i)) = 1

\* C2: orchestrate never raises, whatever decomposition, the workers, the
\* batch timeout and synthesis do.
C2_NeverRaises == pc # "raised"

\* C3: when the batch timeout elapses with workers pending, each pending
\* worker gets a "timeout" entry and the batch is not failed.
C3_TimeoutRecorded ==
    exc = "TimeoutError"
        => /\ pc # "raised"
           /\ \A i \in ac_pending :
                 \E j \in DOMAIN agent_results :
                     /\ agent_results[j].agent_id = i
                     /\ agent_results[j].status = "timeout"

\* C4: decompose_task(user_input, N) returns exactly N non-empty strings for
\* every N >= 1 and every reply of the model.
C4_ExactlyN ==
    dq_out # NoValue
        => /\ dq_out.kind = "list"
           /\ Len(dq_out.items) = dq_n
           /\ \A j \in DOMAIN dq_out.items : dq_out.items[j] # <<>>

\* C5: run_agent_parallel never raises: every finished worker holds a result
\* dict for its own index; a failure gives status "error", cost 0 and the
\* error text as response; what orchestrate collects for another worker is
\* that worker's own result.
C5_WorkerNeverRaises ==
    /\ \A i \in Agents : wstate[i] = "done" =>
          /\ wresult[i] # NoValue
          /\ wresult[i].agent_id = i
          /\ wresult[i].status \in {"success", "error"}
          /\ wresult[i].status = "error" =>
                /\ wresult[i].estimated_cost = 0
                /\ \E o \in WorkerOutcomes \ {"ok"} :
                      wresult[i].response[Len(wresult[i].response)] = ErrorText(o)
                /\ wresult[i].response[1] = "Agent " \o ToString(i) \o " error"
    /\ \A j \in DOMAIN agent_results :
          /\ agent_results[j].status \in {"success", "error"}
          /\ agent_results[j] = wresult[agent_results[j].agent_id]

C5_Witness ==
    /\ pc = "returned"
    /\ \E i, j \in Agents :
          /\ wresult[i] # NoValue /\ wresult[i].status = "error"
          /\ wresult[j] # NoValue /\ wresult[j].status = "success"

\* the blocks "=== Agent j Response ===" / response of the successful workers
\* idx, numbered from j, joined by newlines
RECURSIVE BlocksInOrder(_, _)
BlocksInOrder(idx, j) ==
    IF j > Len(idx) THEN <<>>
    ELSE <<"=== Agent " \o ToString(j) \o " Response ===", "\n">>
         \o wresult[idx[j]].response \o <<"\n">>
         \o (IF j < Len(idx) THEN <<"\n">> ELSE <<>>)
         \o BlocksInOrder(idx, j + 1)

\* C6: two or more successes and a raising synthesis call: the returned text
\* is the successful responses under "=== Agent i Response ===" headers in
\* worker-index order, with no text of a successful synthesis.
C6_FallbackConcat ==
    (pc = "returned" /\ synth_outcome = "run_fail")
        => /\ final_result = BlocksInOrder(SucceededFrom(0), 1)
           /\ ~Contains(final_result, SynthesisAnswer)
           /\ \A i \in Succeeded : Contains(final_result, wresult[i].response)

C6_Witness ==
    /\ pc = "returned"
    /\ synth_outcome = "run_fail"
    /\ Cardinality(Succeeded) >= 2
    /\ Succeeded # Agents

\* C7: any exception in the synthesis step (agent creation, prompt
\* formatting, the synthesis call) yields the concatenation fallback;
\* aggregate_results does not raise.
C7_SynthesisFailureFallsBack ==
    (AggregationDone /\ synth_outcome \in {"create_fail", "format_fail", "run_fail"})
        => /\ pc = "returned"
           /\ final_result = BlocksInOrder(SucceededFrom(0), 1)

\* positions at which text s occurs in text t
Occurrences(t, s) ==
    {k \in 0..(Len(t) - Len(s)) : SubSeq(t, k + 1, k + Len(s)) = s}

\* C8: the synthesis prompt holds exactly the successful responses, each once,
\* in worker-index order, whatever the completion order; nothing of a failed
\* worker is in it.
C8_PromptInIndexOrder ==
    \A k \in DOMAIN synth_requests :
        LET prompt == synth_requests[k] IN
        /\ \A i \in Succeeded : Cardinality(Occurrences(prompt, wresult[i].response)) = 1
        /\ \A i, j \in Succeeded :
              i < j => \A a \in Occurrences(prompt, wresult[i].response) :
                       \A b \in Occurrences(prompt, wresult[j].response) : a < b
        /\ \A i \in Agents \ Succeeded :
              wresult[i] # NoValue => ~Contains(prompt, wresult[i].response)
        /\ Cardinality({a \in DOMAIN prompt : prompt[a] = "\n"}) = 3 * Cardinality(Succeeded)
        /\ Len(prompt) = 3 + 5 * Cardinality(Succeeded)

C8_Witness ==
    /\ Len(synth_requests) = 1
    /\ Cardinality(Succeeded) >= 2
    /\ Succeeded # Agents
    /\ pc = "returned"

\* C9: no successful result: aggregate_results returns the fixed failure
\* string and sends no completion request.
C9_AllFailed ==
    (AggregationDone /\ Succeeded = {})
        => /\ pc = "returned"
           /\ final_result = <<"All agents failed to provide results. Please try again.">>
           /\ synth_requests = <<>>
           /\ synth_agents = 0

C9_Witness ==
    /\ pc = "returned"
    /\ num_agents >= 2
    /\ Succeeded = {}
    /\ Len(agent_results) = num_agents

C11_ReturnsAccumulated ==
    (a_pc = "returned" /\ ~a_completed)
        => /\ a_out = [value |-> Join(a_content, "\n\n")]
           /\ a_role = "worker" => a_status = "success"

\* C11 (amended): when the loop reaches max_iterations without
\* mark_task_complete, run does not raise and returns the accumulated
\* assistant content joined by blank lines, or the fixed text "Maximum
\* iterations reached. The agent may be stuck in a loop." when nothing was
\* accumulated; a worker's result has status "success" in both cases.
C11_ReturnsAccumulatedOrNotice ==
    (a_pc = "returned" /\ ~a_completed)
        => /\ a_exc = ""
           /\ a_iter = max_iterations(a_cfg)
           /\ a_content # <<>> => a_out = [value |-> Join(a_content, "\n\n")]
           /\ a_content = <<>> =>
                 a_out = [value |->
                    <<"Maximum iterations reached. The agent may be stuck in a loop.">>]
           /\ a_role = "worker" => a_status = "success"

C11_Witness ==
    /\ a_pc = "returned"
    /\ ~a_completed
    /\ a_role = "worker"
    /\ a_iter = 10
    /\ a_content = <<>>
    /\ a_status = "success"

\* C12: run sends at most max_iterations completion requests (10 when
\* agent.max_iterations is not configured) and none after an iteration in
\* which mark_task_complete was invoked.
C12_BoundedRequests ==
    /\ Len(a_requests) = a_iter
    /\ a_cfg # NoValue =>
          Len(a_requests) <= (IF a_cfg.max_iterations = NotConfigured THEN 10
                              ELSE a_cfg.max_iterations)
    /\ a_completed => a_pc = "returned"

C12_Witness ==
    /\ a_pc = "returned"
    /\ a_completed
    /\ a_cfg.max_iterations = NotConfigured
    /\ Len(a_requests) = 3

\* the tools of the agent once its caller has stripped mark_task_complete
RealTools ==
    IF a_role \in {"decompose", "synthesis"}
    THEN SelectSeq(a_cfg.tools, LAMBDA t : t # "mark_task_complete")
    ELSE a_cfg.tools

C16_ProviderErrorPropagates ==
    a_pc = "raised"
        => /\ a_out = NoValue
           /\ a_cfg.provider = "deepseek" => a_exc = "DeepSeekAPIError"
           /\ a_cfg.provider = "openrouter" => a_exc = "OpenRouterAPIError"
           /\ a_cfg.provider \in {"deepseek", "openrouter"}

C16_Witness ==
    /\ a_pc = "raised"
    /\ a_role = "single"
    /\ a_cfg.provider = "openrouter"
    /\ a_exc = "OpenRouterAPIError"
    /\ a_content # <<>>
    /\ a_out = NoValue

\* the configuration errors C17 lists
ListedConfigError(cfg) ==
    \/ cfg.file = "missing"
    \/ cfg.provider \notin {"deepseek", "openrouter"}
    \/ cfg.api_key = ""
    \/ cfg.base_url = ""
    \/ cfg.model = ""
    \/ (cfg.provider = "deepseek"
        /\ (cfg.model \notin {"deepseek-chat", "deepseek-reasoner"}
            \/ cfg.base_url # "https://api.deepseek.com"))

\* C17: a configuration error is raised by the construction of the agent,
\* before any completion request; an invalid configuration sends no request.
C17_ConfigErrorBeforeAnyRequest ==
    (a_cfg # NoValue /\ ListedConfigError(a_cfg))
        => /\ a_requests = <<>>
           /\ a_pc \in {"new", "init_failed"}
           /\ a_pc = "init_failed" => a_exc # ""

C17_Witness ==
    /\ a_pc = "init_failed"
    /\ a_cfg.file = "present"
    /\ a_cfg.provider = "deepseek"
    /\ a_cfg.api_key # ""
    /\ a_cfg.base_url = "https://api.deepseek.com"
    /\ a_cfg.model = "gpt-4"
    /\ a_requests = <<>>

\* ------------------------------------------------------ decomposition fallback
\* the reply is not JSON, or is a JSON array, string or object of a length
\* other than N
ReplyRejected ==
    /\ dq_reply # NoValue
    /\ \/ dq_reply.k = "unparsable"
       \/ /\ dq_reply.k \in {"json_array", "json_string", "json_object"}
          /\ dq_reply.n # dq_n

C14_HandsBackWithoutWaiting ==
    (pc = "shutdown" /\ exc = "TimeoutError") => ENABLED PoolShutdown

\* C15: in one orchestrate call run_agent_parallel is invoked at most once
\* per index, and exactly once for each index 0..N-1 by the time the call
\* ends, given that decomposition handed back its sub-questions.
C15_OncePerIndex ==
    /\ \A i \in Agents : invocations[i] <= 1
    /\ (pc \in {"returned", "raised"} /\ subtasks # NoValue)
          => \A i \in Agents : invocations[i] = 1

\* the estimates of the current orchestrate call: its workers' and its synthesis
CallEstimates ==
    LET worker(i) == IF wresult[i] # NoValue THEN wresult[i].estimated_cost ELSE 0
        RECURSIVE Workers(_)
        Workers(i) == IF i >= num_agents THEN 0 ELSE worker(i) + Workers(i + 1)
        synthesis == IF synth_outcome \in {"ok", "create_retry", "create_retry2"}
                     THEN EstimatedCost(TextLen(synth_requests[Len(synth_requests)]),
                                        TextLen(final_result))
                     ELSE 0
    IN Workers(0) + synthesis

\* C19: when an orchestrate call starts the ledger holds no cost of an earlier
\* call, and when it has returned the total of the execution summary equals
\* the sum of that call's worker and synthesis estimates.
C19_LedgerCoversOneCall ==
    /\ pc = "start" => agent_costs = EmptyDict
    /\ pc = "returned" => get_execution_summary.total_estimated_cost = CallEstimates

\* C18: every write a pool thread makes to orchestrator state is made while
\* the thread holds progress_lock and goes to the entry of its own index.
C18_WritesLockedOwnIndex ==
    \A w \in f_writes : w.locked /\ w.key = ToString(w.thread)

\* ------------------------------------------------- orchestrate and the monitor
\* C29: with cost monitoring enabled, an orchestrate call has started the
\* monitor before it decomposes (monitoring_active is True from then until it
\* leaves), and monitoring_active is False whenever the call has returned or
\* raised.
C29_MonitoringBracketsCall ==
    /\ pc \in {"decompose", "submit", "collect", "shutdown"} => monitoring_active
    /\ pc \in {"returned", "raised"} => ~monitoring_active

C29_Witness ==
    /\ pc = "raised"
    /\ exc = "TimeoutError"
    /\ ~monitoring_active

\* final statuses shown by AgentManager.run_heavy_mode after orchestrate
\* returned: every status other than "FAILED" becomes "COMPLETED"
run_heavy_mode_final(status) == IF status # "FAILED" THEN "COMPLETED" ELSE status

\* C27: when orchestrate returns no worker's progress status is "QUEUED" or
\* "PROCESSING...": a successful worker is COMPLETED, a failed one is neither
\* in progress nor COMPLETED, in the orchestrator and in what run_heavy_mode
\* shows.
C27_NoWorkerLeftInProgress ==
    pc = "returned" =>
        \A i \in Agents :
            /\ agent_progress[i] \notin {"QUEUED", "PROCESSING..."}
            /\ wresult[i].status = "success" => agent_progress[i] = "COMPLETED"
            /\ wresult[i].status # "success" =>
                  /\ agent_progress[i] # "COMPLETED"
                  /\ run_heavy_mode_final(agent_progress[i]) # "COMPLETED"

\* ---------------------------------------------------------- CostMonitor claims
\* no record_agent_cost call is under way
RecordersIdle == \A t \in DOMAIN cm_pc : cm_pc[t] = "idle"

\* cumulative cost of the first k cost entries
RECURSIVE CostOfFirst(_)
CostOfFirst(k) == IF k = 0 THEN 0 ELSE CostOfFirst(k - 1) + cm_cost_entries[k].cost

\* C21: in a sequence of record_agent_cost calls each default alert (warning
\* at 50%, critical at 80%, budget_exceeded at 100% of the budget) calls the
\* alert callback exactly once, at the first record whose cumulative total
\* reaches its threshold, and the calls come in ascending threshold order.
C21_AlertsOnceInOrder ==
    cm_resets = 0 =>
        /\ \A i, j \in DOMAIN cm_callbacks :
              i < j => \E x, y \in 1..3 :
                          /\ x < y
                          /\ <<"warning", "critical", "budget_exceeded">>[x]
                                = cm_callbacks[i].alert_type
                          /\ <<"warning", "critical", "budget_exceeded">>[y]
                                = cm_callbacks[j].alert_type
        /\ RecordersIdle =>
              \A x \in 1..3 :
                 LET a == <<"warning", "critical", "budget_exceeded">>[x]
                     th == <<cm_budget_limit \div 2, (cm_budget_limit * 4) \div 5,
                             cm_budget_limit>>[x]
                     reached == {k \in DOMAIN cm_cost_entries : CostOfFirst(k) >= th}
                     calls == {j \in DOMAIN cm_callbacks : cm_callbacks[j].alert_type = a}
                 IN /\ reached = {} => calls = {}
                    /\ reached # {} =>
                          /\ Cardinality(calls) = 1
                          /\ \A j \in calls :
                                /\ cm_callbacks[j].entries \in reached
                                /\ \A k \in reached : cm_callbacks[j].entries <= k

C21_Witness ==
    /\ cm_resets = 0
    /\ RecordersIdle
    /\ Len(cm_cost_entries) = 3
    /\ Len(cm_callbacks) = 3
    /\ cm_callbacks[1].entries = 2
    /\ cm_callbacks[2].entries = 2
    /\ cm_callbacks[3].entries = 3

C26_EachPieceOnce ==
    (a_pc = "returned" /\ a_out # NoValue) =>
        \A i, j \in DOMAIN a_content : i # j => a_content[i] # a_content[j]

C24_EveryToolCallAnswered ==
    \A m \in DOMAIN t_messages :
        t_messages[m].role = "assistant" =>
            LET later == {j \in DOMAIN t_messages :
                             j > m /\ t_messages[j].role = "assistant"}
                answers == {j \in DOMAIN t_messages :
                               /\ j > m
                               /\ \A l \in later : j < l
                               /\ t_messages[j].role = "tool"}
                calls == t_messages[m].tool_calls
            IN \A k \in DOMAIN calls :
                  /\ Cardinality({j \in answers :
                                     t_messages[j].tool_call_id = calls[k].id}) = 1
                  /\ (calls[k].name = "no_such_tool" \/ calls[k].name = "failing_tool"
                      \/ calls[k].args = "bad_json") =>
                        \A j \in answers :
                           t_messages[j].tool_call_id = calls[k].id =>
                              t_messages[j].content # "result"

\* ------------------------------------------------------- AgentManager claims
\* C23: a run_async call invokes the completion callback exactly once, with
\* the result when the run succeeded and with an "Error: ..." message when
\* it failed.
C23_CallbackExactlyOnce ==
    \A e \in DOMAIN m_pc :
        m_pc[e] = "done" =>
            /\ Len(m_cb_calls[e]) = 1
            /\ m_outcome[e] = "success" => m_cb_calls[e][1] = "result"
            /\ m_outcome[e] = "failure" => m_cb_calls[e][1] = "Error"

\* C30: is_agent_running() is True as long as any execution is in progress,
\* also when two executions overlap and one of them has finished.
C30_RunningWhileAnyInProgress ==
    (\E e \in DOMAIN m_pc : m_pc[e] = "running") => is_agent_running

\* ------------------------------------------------------ monitoring-loop claim
\* C28: whatever start_monitoring and stop_monitoring calls are made, at most
\* one monitoring-loop thread is alive at any time, and a loop that was
\* running when stop_monitoring was called never passes its while test
\* again, also when start_monitoring is called right afterwards.
C28_OneLoopAndStopEndsIt ==
    /\ Cardinality({t \in DOMAIN l_threads : l_threads[t].st \in {"checking", "sleeping"}}) <= 1
    /\ \A t \in DOMAIN l_threads : ~l_threads[t].survived

====
